---------------------------- MODULE Spec2Model ----------------------------
(***************************************************************************)
(* State-machine model of the PCIe end point register-space driver         *)
(* (xlnx_pcie_platform_drv.c): the file operations of the character        *)
(* device (open, release, ioctl, read, write, llseek), the three interrupt *)
(* handlers, the completion counters and the coherent DMA buffers of the   *)
(* read and the write direction.                                           *)
(*                                                                         *)
(* Machine words.  TLC integers are 32-bit signed, so a u32 is kept as a   *)
(* pair of 16-bit limbs <<lo, hi>> and a u64 as four limbs                 *)
(* <<l0, l1, l2, l3>>, least significant first.  The C operators &, |, ~   *)
(* and >> are computed limb by limb.                                       *)
(***************************************************************************)
EXTENDS Integers, Naturals, Sequences, FiniteSets, TLC

VARIABLES
    regs,             \* this->regs: the mapped register block, offset -> u32
    read_complete,    \* this->read_complete.done  (struct completion counter)
    write_complete,   \* this->write_complete.done
    read_virt_addr,   \* this->read_virt_addr / read_phys_addr (0 = NULL)
    write_virt_addr,  \* this->write_virt_addr / write_phys_addr (0 = NULL)
    is_open,          \* this->is_open
    live,             \* coherent buffers allocated and not freed, per direction
    badfree,          \* dma_free_coherent was called on a buffer that is not live
    pc,               \* per caller: where its thread is
    call              \* per caller: the file operation in progress and its locals

vars == <<regs, read_complete, write_complete, read_virt_addr, write_virt_addr,
          is_open, live, badfree, pc, call>>

-----------------------------------------------------------------------------
(* Bounds of the model *)

\* the coherent pool hands out buffers 1..NumBufs
NumBufs == 2
\* complete() is modelled while the completion counter is below MaxDone
MaxDone == 1

Callers == {"p", "q"}
Dirs    == {"read", "write"}
\* the size_t count values the callers pass to read and write
Counts  == {0, 1}
Addrs   == 1 .. NumBufs
NULL    == 0

-----------------------------------------------------------------------------
(* Register offsets *)

PCIEP_READ_BUFFER_READY   == 0
PCIEP_READ_BUFFER_ADDR    == 4
PCIEP_READ_BUFFER_OFFSET  == 8
PCIEP_READ_BUFFER_SIZE    == 12
PCIEP_WRITE_BUFFER_READY  == 16
PCIEP_WRITE_BUFFER_ADDR   == 20
PCIEP_WRITE_BUFFER_OFFSET == 24
PCIEP_WRITE_BUFFER_SIZE   == 28
PCIEP_READ_TRANSFER_DONE  == 32
PCIEP_WRITE_TRANSFER_DONE == 36

Regs == {PCIEP_READ_BUFFER_READY, PCIEP_READ_BUFFER_ADDR,
         PCIEP_READ_BUFFER_OFFSET, PCIEP_READ_BUFFER_SIZE,
         PCIEP_WRITE_BUFFER_READY, PCIEP_WRITE_BUFFER_ADDR,
         PCIEP_WRITE_BUFFER_OFFSET, PCIEP_WRITE_BUFFER_SIZE,
         PCIEP_READ_TRANSFER_DONE, PCIEP_WRITE_TRANSFER_DONE}

\* registers the driver only reads: written by the PCIe peer
PCIRC_READ_FILE_LENGTH                == 64
PCIRC_READ_BUFFER_TRANSFER_DONE       == 68
PCIRC_ENC_PARAMS_1                    == 76
PCIRC_ENC_PARAMS_2                    == 80
PCIRC_RAW_RESOLUTION                  == 84
PCIRC_USECASE_MODE                    == 88
PCIRC_ENC_PARAMS_3                    == 92
PCIRC_ENC_PARAMS_4                    == 96
PCIRC_ENC_PARAMS_5                    == 100
PCIRC_READ_BUFFER_TRANSFER_DONE_INTR  == 104
PCIRC_WRITE_BUFFER_TRANSFER_DONE_INTR == 108
PCIRC_HOST_DONE_INTR                  == 112

\* the word below PCIRC_READ_FILE_LENGTH is read as PCIRC_READ_FILE_LENGTH - 4
RcRegs == {PCIRC_READ_FILE_LENGTH - 4, PCIRC_READ_FILE_LENGTH,
           PCIRC_READ_BUFFER_TRANSFER_DONE,
           PCIRC_ENC_PARAMS_1, PCIRC_ENC_PARAMS_2, PCIRC_RAW_RESOLUTION,
           PCIRC_USECASE_MODE, PCIRC_ENC_PARAMS_3, PCIRC_ENC_PARAMS_4,
           PCIRC_ENC_PARAMS_5, PCIRC_READ_BUFFER_TRANSFER_DONE_INTR,
           PCIRC_WRITE_BUFFER_TRANSFER_DONE_INTR, PCIRC_HOST_DONE_INTR}

AllRegs == Regs \cup RcRegs

\* u32 register values, as limb pairs
PCIEP_CLR_REG         == <<0, 0>>
SET_BUFFER_RDY        == <<1, 0>>
READ_BUF_HIGH_OFFSET  == <<0, 65535>>
WRITE_BUF_HIGH_OFFSET == <<0, 65535>>
TRANSFER_DONE_VALUE   == <<239, 0>>

\* errno values returned negated
EINVAL == 22
ENOMEM == 12
ENOTTY == 25

-----------------------------------------------------------------------------
(* C arithmetic on limbs *)

RECURSIVE BitAnd(_, _)
BitAnd(a, b) ==
    IF a = 0 \/ b = 0 THEN 0
    ELSE (a % 2) * (b % 2) + 2 * BitAnd(a \div 2, b \div 2)

RECURSIVE BitOr(_, _)
BitOr(a, b) ==
    IF a = 0 THEN b
    ELSE IF b = 0 THEN a
    ELSE (IF a % 2 = 1 \/ b % 2 = 1 THEN 1 ELSE 0) + 2 * BitOr(a \div 2, b \div 2)

\* u32 & u32,  u32 | u32,  ~u32
And32(v, m) == <<BitAnd(v[1], m[1]), BitAnd(v[2], m[2])>>
Or32(v, m)  == <<BitOr(v[1], m[1]), BitOr(v[2], m[2])>>
Not32(m)    == <<65535 - m[1], 65535 - m[2]>>

\* u64 & u64 and u64 >> 16; a u32 constant widened to u64
And64(v, m) == <<BitAnd(v[1], m[1]), BitAnd(v[2], m[2]),
                 BitAnd(v[3], m[3]), BitAnd(v[4], m[4])>>
\* mutant: the shift by 16 is left out
Shr16_missing(v) == v

Shr16(v)    == <<v[2], v[3], v[4], 0>>
Widen(w)    == <<w[1], w[2], 0, 0>>

\* conversion of a u64 to the u32 parameter of reg_write / to "unsigned int value"
Trunc32(v)  == <<v[1], v[2]>>

\* a size_t or dma_addr_t below 2^31 as a u64
FromNat(n)  == <<n % 65536, (n \div 65536) % 65536, 0, 0>>

\* 2^n for n in 0..16
Pow2(n) == CASE n = 0 -> 1 [] n = 1 -> 2 [] n = 2 -> 4 [] n = 3 -> 8
             [] n = 4 -> 16 [] n = 5 -> 32 [] n = 6 -> 64 [] n = 7 -> 128
             [] n = 8 -> 256 [] n = 9 -> 512 [] n = 10 -> 1024
             [] n = 11 -> 2048 [] n = 12 -> 4096 [] n = 13 -> 8192
             [] n = 14 -> 16384 [] n = 15 -> 32768 [] n = 16 -> 65536

\* mutant: each 16-bit half is shifted by itself, the bits that cross from
\* the high half into the low half are lost
Shr32_within_halves(v, n) ==
    IF n >= 16 THEN <<v[2] \div Pow2(n - 16), 0>>
    ELSE <<v[1] \div Pow2(n), v[2] \div Pow2(n)>>

\* u32 >> n for n in 0..31
Shr32(v, n) ==
    IF n >= 16 THEN <<v[2] \div Pow2(n - 16), 0>>
    ELSE <<(v[1] \div Pow2(n)) + (v[2] % Pow2(n)) * Pow2(16 - n),
           v[2] \div Pow2(n)>>

\* mutant: the field is masked without being shifted down
Field_unshifted(value, shift, mask) == And32(value, mask)

\* (value >> shift) & mask, as in value = (value >> FPS_SHIFT) & FPS_MASK
Field(value, shift, mask) == And32(Shr32(value, shift), mask)

\* u32 | (u64)u32 << 32
Join64(low, high) == <<low[1], low[2], high[1], high[2]>>

reg_read(r, reg) == r[reg]

reg_write(r, reg, value) == [r EXCEPT ![reg] = value]

-----------------------------------------------------------------------------
(* Per-caller bookkeeping.  op, count and ret are the file operation, its   *)
(* count (or cmd) argument and its return value, arg the u64 a control      *)
(* request points to.  While the caller is                                  *)
(* blocked in wait_for_completion, buf is the buffer its dma_alloc_coherent *)
(* returned, irq tells whether the direction's interrupt handler has run    *)
(* since it set the ready bit, and overlap whether another call of the same *)
(* direction has been in progress at the same time.  For a control request  *)
(* out is what copy_to_user put into the caller's memory, rd and wr the     *)
(* registers it read and wrote.  Where the register accesses of a transfer  *)
(* are steps of their own, step counts the accesses made, copied tells      *)
(* whether copy_from_user has filled the buffer, and value is the local     *)
(* variable of that name.                                                   *)

NoCall == [op |-> "none", count |-> 0, arg |-> <<0, 0, 0, 0>>, ret |-> 0,
           buf |-> NULL, irq |-> FALSE, overlap |-> FALSE,
           out |-> <<>>, rd |-> {}, wr |-> {},
           step |-> 0, copied |-> FALSE, value |-> <<0, 0>>]

\* the record of a call that has returned ret
Returned(op, count, ret) ==
    [NoCall EXCEPT !.op = op, !.count = count, !.ret = ret]

WaitPc(d) == IF d = "read" THEN "read_wait" ELSE "write_wait"

\* callers other than c that are inside a transfer of direction d
Others(c, d) == {o \in Callers \ {c} : pc[o] = WaitPc(d)}

\* the bookkeeping after caller c entered a transfer of direction d
Enter(c, d, rec) ==
    [o \in Callers |->
        IF o = c THEN rec
        ELSE IF o \in Others(c, d) THEN [call[o] EXCEPT !.overlap = TRUE]
        ELSE call[o]]

AllLive == live["read"] \cup live["write"]

\* what dma_alloc_coherent may return: a buffer not in use, or NULL
AllocResults == (Addrs \ AllLive) \cup {NULL}

\* dma_free_coherent(addr): the buffer leaves the pool whoever allocated it
FreeLive(addr) == [d \in Dirs |-> live[d] \ {addr}]

-----------------------------------------------------------------------------
(* open and release *)

pcie_reset_all(r) ==
    LET r1 == reg_write(r,  PCIEP_READ_TRANSFER_DONE,  PCIEP_CLR_REG)
        r2 == reg_write(r1, PCIEP_WRITE_TRANSFER_DONE, PCIEP_CLR_REG)
        r3 == reg_write(r2, PCIEP_READ_BUFFER_OFFSET,  PCIEP_CLR_REG)
        r4 == reg_write(r3, PCIEP_READ_BUFFER_SIZE,    PCIEP_CLR_REG)
        r5 == reg_write(r4, PCIEP_WRITE_BUFFER_SIZE,   PCIEP_CLR_REG)
        r6 == reg_write(r5, PCIEP_READ_BUFFER_READY,   PCIEP_CLR_REG)
    IN  reg_write(r6, PCIEP_WRITE_BUFFER_READY, PCIEP_CLR_REG)

pciep_driver_file_open(c) ==
    /\ pc[c] = "closed"
    /\ is_open' = TRUE
    /\ regs' = pcie_reset_all(regs)
    /\ pc' = [pc EXCEPT ![c] = "ret"]
    /\ call' = [call EXCEPT ![c] = Returned("open", 0, 0)]
    /\ UNCHANGED <<read_complete, write_complete, read_virt_addr,
                   write_virt_addr, live, badfree>>

\* mutant: close runs the full reset
release_regs_full_reset(r) == pcie_reset_all(r)

\* lines 284-289
release_regs(r) ==
    LET r1    == reg_write(r, PCIEP_READ_BUFFER_OFFSET, PCIEP_CLR_REG)
        value == And32(reg_read(r1, PCIEP_READ_BUFFER_READY),
                       Not32(READ_BUF_HIGH_OFFSET))
        r2    == reg_write(r1, PCIEP_READ_BUFFER_READY, value)
        r3    == reg_write(r2, PCIEP_READ_BUFFER_SIZE, PCIEP_CLR_REG)
    IN  reg_write(r3, PCIEP_WRITE_BUFFER_SIZE, PCIEP_CLR_REG)

pciep_driver_file_release(c) ==
    /\ pc[c] = "idle"
    /\ is_open' = FALSE
    /\ regs' = release_regs(regs)
    /\ pc' = [pc EXCEPT ![c] = "ret"]
    /\ call' = [call EXCEPT ![c] = Returned("release", 0, 0)]
    /\ UNCHANGED <<read_complete, write_complete, read_virt_addr,
                   write_virt_addr, live, badfree>>

\* the file operation returns to user space
Return(c) ==
    /\ pc[c] = "ret"
    /\ pc' = [pc EXCEPT ![c] = IF call[c].op = "release" THEN "closed"
                               ELSE "idle"]
    /\ call' = [call EXCEPT ![c] = NoCall]
    /\ UNCHANGED <<regs, read_complete, write_complete, read_virt_addr,
                   write_virt_addr, is_open, live, badfree>>

-----------------------------------------------------------------------------
(* read and write transfers.  Each is two steps: from the entry of the      *)
(* file operation to wait_for_completion, and from the wake-up to return.   *)

\* mutant: the size check lets 0 through
count_invalid_zero_ok(count) == count < 0

\* lines 436 and 484: if (count <= 0)
count_invalid(count) == count <= 0

\* mutant: the result of dma_alloc_coherent is not checked
alloc_failed_unchecked(mem) == FALSE

\* lines 442 and 490: IS_ERR_OR_NULL(this->read_virt_addr)
alloc_failed(mem) == mem = NULL

\* lines 449-453: address, size, then the ready bit
read_announce(r, phys, count) ==
    LET r1    == reg_write(r,  PCIEP_READ_BUFFER_ADDR, Trunc32(FromNat(phys)))
        r2    == reg_write(r1, PCIEP_READ_BUFFER_SIZE, Trunc32(FromNat(count)))
        value == Or32(reg_read(r2, PCIEP_READ_BUFFER_READY), SET_BUFFER_RDY)
    IN  reg_write(r2, PCIEP_READ_BUFFER_READY, value)

\* lines 501-505
write_announce(r, phys, count) ==
    LET r1    == reg_write(r,  PCIEP_WRITE_BUFFER_ADDR, Trunc32(FromNat(phys)))
        r2    == reg_write(r1, PCIEP_WRITE_BUFFER_SIZE, Trunc32(FromNat(count)))
        value == Or32(reg_read(r2, PCIEP_WRITE_BUFFER_READY), SET_BUFFER_RDY)
    IN  reg_write(r2, PCIEP_WRITE_BUFFER_READY, value)

\* read(fd, buff, count) up to wait_for_completion; mem is what
\* dma_alloc_coherent returns
pciep_driver_file_read(c, count, mem) ==
    /\ pc[c] = "idle"
    /\ mem \in AllocResults
    /\ IF count_invalid(count) THEN
          /\ mem = NULL
          /\ pc' = [pc EXCEPT ![c] = "ret"]
          /\ call' = [call EXCEPT ![c] = Returned("read", count, -EINVAL)]
          /\ UNCHANGED <<regs, read_virt_addr, live>>
       ELSE IF alloc_failed(mem) THEN
          /\ read_virt_addr' = NULL
          /\ pc' = [pc EXCEPT ![c] = "ret"]
          /\ call' = Enter(c, "read", Returned("read", count, -ENOMEM))
          /\ UNCHANGED <<regs, live>>
       ELSE
          /\ read_virt_addr' = mem
          /\ live' = [live EXCEPT !["read"] = @ \cup {mem}]
          /\ regs' = read_announce(regs, mem, count)
          /\ pc' = [pc EXCEPT ![c] = "read_wait"]
          /\ call' = Enter(c, "read",
                           [NoCall EXCEPT
                               !.op = "read", !.count = count, !.buf = mem,
                               !.overlap = (Others(c, "read") # {})])
    /\ UNCHANGED <<read_complete, write_complete, write_virt_addr, is_open,
                   badfree>>

\* wait_for_completion returns; copy_to_user leaves `uncopied` bytes; free
pciep_driver_file_read_wake(c, uncopied) ==
    /\ pc[c] = "read_wait"
    /\ read_complete > 0
    /\ uncopied \in 0 .. call[c].count
    /\ read_complete' = read_complete - 1
    /\ live' = FreeLive(read_virt_addr)
    /\ badfree' = (badfree \/ read_virt_addr \notin AllLive)
    /\ pc' = [pc EXCEPT ![c] = "ret"]
    /\ call' = [call EXCEPT ![c] = Returned("read", call[c].count, uncopied)]
    /\ UNCHANGED <<regs, write_complete, read_virt_addr, write_virt_addr,
                   is_open>>

\* mutant: the copy_from_user failure path returns without the free
write_out_live_leak(mem) == [live EXCEPT !["write"] = @ \cup {mem}]

\* lines 497-499 and 509-512: copy_from_user failed, goto out: the buffer
\* mem just allocated is handed back by dma_free_coherent
write_out_live(mem) ==
    [d \in Dirs |-> ([live EXCEPT !["write"] = @ \cup {mem}])[d] \ {mem}]

\* write(fd, buff, count) up to wait_for_completion, or to the return when
\* copy_from_user leaves `uncopied` bytes
pciep_driver_file_write(c, count, mem, uncopied) ==
    /\ pc[c] = "idle"
    /\ mem \in AllocResults
    /\ uncopied \in 0 .. count
    /\ IF count_invalid(count) THEN
          /\ mem = NULL
          /\ uncopied = 0
          /\ pc' = [pc EXCEPT ![c] = "ret"]
          /\ call' = [call EXCEPT ![c] = Returned("write", count, -EINVAL)]
          /\ UNCHANGED <<regs, write_virt_addr, live>>
       ELSE IF alloc_failed(mem) THEN
          /\ uncopied = 0
          /\ write_virt_addr' = NULL
          /\ pc' = [pc EXCEPT ![c] = "ret"]
          /\ call' = Enter(c, "write", Returned("write", count, -ENOMEM))
          /\ UNCHANGED <<regs, live>>
       ELSE IF uncopied # 0 THEN
          /\ write_virt_addr' = mem
          /\ live' = write_out_live(mem)
          /\ pc' = [pc EXCEPT ![c] = "ret"]
          /\ call' = Enter(c, "write", Returned("write", count, uncopied))
          /\ UNCHANGED regs
       ELSE
          /\ write_virt_addr' = mem
          /\ live' = [live EXCEPT !["write"] = @ \cup {mem}]
          /\ regs' = write_announce(regs, mem, count)
          /\ pc' = [pc EXCEPT ![c] = "write_wait"]
          /\ call' = Enter(c, "write",
                           [NoCall EXCEPT
                               !.op = "write", !.count = count, !.buf = mem,
                               !.overlap = (Others(c, "write") # {})])
    /\ UNCHANGED <<read_complete, write_complete, read_virt_addr, is_open,
                   badfree>>

\* wait_for_completion returns; free; return ret (0 from copy_from_user)
pciep_driver_file_write_wake(c) ==
    /\ pc[c] = "write_wait"
    /\ write_complete > 0
    /\ write_complete' = write_complete - 1
    /\ live' = FreeLive(write_virt_addr)
    /\ badfree' = (badfree \/ write_virt_addr \notin AllLive)
    /\ pc' = [pc EXCEPT ![c] = "ret"]
    /\ call' = [call EXCEPT ![c] = Returned("write", call[c].count,
                                              call[c].ret)]
    /\ UNCHANGED <<regs, read_complete, read_virt_addr, write_virt_addr,
                   is_open>>

-----------------------------------------------------------------------------
(* interrupt handlers *)

\* every transfer of direction d that has announced its buffer has now seen
\* the direction's interrupt handled
NoteIrq(d) ==
    [o \in Callers |-> IF pc[o] = WaitPc(d) THEN [call[o] EXCEPT !.irq = TRUE]
                       ELSE call[o]]

irq_clear_ready(r, reg) ==
    LET value == And32(reg_read(r, reg), Not32(SET_BUFFER_RDY))
    IN  reg_write(r, reg, value)

\* the handler, modelled while the completion counter is below cap: the
\* ready bit is cleared, complete() counts the completion up, and the
\* interrupt source register is read
read_irq_handler(cap) ==
    /\ read_complete < cap
    /\ regs' = irq_clear_ready(regs, PCIEP_READ_BUFFER_READY)
    /\ read_complete' = read_complete + 1
    /\ call' = NoteIrq("read")
    /\ UNCHANGED <<write_complete, read_virt_addr, write_virt_addr, is_open,
                   live, badfree, pc>>

xilinx_pciep_read_irq_handler == read_irq_handler(MaxDone)

\* mutant: the write handler completes the read completion
write_irq_handler_completes_read ==
    /\ read_complete < MaxDone
    /\ regs' = irq_clear_ready(regs, PCIEP_WRITE_BUFFER_READY)
    /\ read_complete' = read_complete + 1
    /\ call' = NoteIrq("write")
    /\ UNCHANGED <<write_complete, read_virt_addr, write_virt_addr, is_open,
                   live, badfree, pc>>

write_irq_handler(cap) ==
    /\ write_complete < cap
    /\ regs' = irq_clear_ready(regs, PCIEP_WRITE_BUFFER_READY)
    /\ write_complete' = write_complete + 1
    /\ call' = NoteIrq("write")
    /\ UNCHANGED <<read_complete, read_virt_addr, write_virt_addr, is_open,
                   live, badfree, pc>>

xilinx_pciep_write_irq_handler == write_irq_handler(MaxDone)

\* mutant: the handler runs the full reset
host_done_regs_full_reset(r) == pcie_reset_all(r)

\* lines 598-599: both transfer-done registers are cleared
host_done_regs(r) ==
    LET r1 == reg_write(r, PCIEP_READ_TRANSFER_DONE, PCIEP_CLR_REG)
    IN  reg_write(r1, PCIEP_WRITE_TRANSFER_DONE, PCIEP_CLR_REG)

xilinx_pciep_host_done_irq_handler ==
    /\ regs' = host_done_regs(regs)
    /\ UNCHANGED <<read_complete, write_complete, read_virt_addr,
                   write_virt_addr, is_open, live, badfree, pc, call>>

-----------------------------------------------------------------------------
(* control requests and llseek *)

GET_FILE_LENGTH         == 0
GET_ENC_PARAMS          == 1
SET_READ_OFFSET         == 2
SET_WRITE_OFFSET        == 3
SET_READ_TRANSFER_DONE  == 5
CLR_READ_TRANSFER_DONE  == 6
SET_WRITE_TRANSFER_DONE == 7
CLR_WRITE_TRANSFER_DONE == 8
GET_RESOLUTION          == 9
GET_MODE                == 10
GET_FPS                 == 11
GET_FORMAT              == 12

\* bit fields: shift, and mask as a u32
WIDTH_SHIFT            == 0
WIDTH_MASK             == <<65535, 0>>
HEIGHT_SHIFT           == 16
HEIGHT_MASK            == <<65535, 0>>
USE_CASE_MODE_SHIFT    == 0
USE_CASE_MODE_MASK     == <<3, 0>>
FPS_SHIFT              == 5
FPS_MASK               == <<1023, 0>>
FORMAT_SHIFT           == 2
FORMAT_MASK            == <<7, 0>>
L2CACHE_SHIFT          == 0
L2CACHE_MASK           == <<1, 0>>
LOW_BANDWIDTH_SHIFT    == 1
LOW_BANDWIDTH_MASK     == <<1, 0>>
FILLER_DATA_SHIFT      == 2
FILLER_DATA_MASK       == <<1, 0>>
BITRATE_SHIFT          == 4
BITRATE_MASK           == <<65535, 0>>
GOP_LENGTH_SHIFT       == 20
GOP_LENGTH_MASK        == <<1023, 0>>
MAX_PICTURE_SIZE_SHIFT == 30
MAX_PICTURE_SIZE_MASK  == <<1, 0>>
B_FRAME_SHIFT          == 0
B_FRAME_MASK           == <<3, 0>>
SLICE_SHIFT            == 3
SLICE_MASK             == <<63, 0>>
QP_MODE_SHIFT          == 9
QP_MODE_MASK           == <<3, 0>>
RC_MODE_SHIFT          == 11
RC_MODE_MASK           == <<3, 0>>
ENC_TYPE_SHIFT         == 13
ENC_TYPE_MASK          == <<3, 0>>
GOP_MODE_SHIFT         == 15
GOP_MODE_MASK          == <<7, 0>>
PROFILE_SHIFT          == 18
PROFILE_MASK           == <<3, 0>>
MIN_QP_SHIFT           == 20
MIN_QP_MASK            == <<63, 0>>
MAX_QP_SHIFT           == 26
MAX_QP_MASK            == <<63, 0>>
CPB_SIZE_SHIFT         == 0
CPB_SIZE_MASK          == <<65535, 0>>
INITIAL_DELAY_SHIFT    == 0
INITIAL_DELAY_MASK     == <<65535, 0>>
PERIODICITY_IDR_SHIFT  == 0
PERIODICITY_IDR_MASK   == <<65535, 0>>

\* copy_to_user of the object src, given as a sequence of units with their
\* sizes in bytes, that leaves the last `fault` units uncopied: the units
\* that reach the caller's memory, and the number of bytes not copied
RECURSIVE SumFrom(_, _)
SumFrom(sizes, i) ==
    IF i > Len(sizes) THEN 0 ELSE sizes[i] + SumFrom(sizes, i + 1)

copy_to_user(src, sizes, fault) ==
    LET f == IF fault > Len(src) THEN Len(src) ELSE fault
    IN  [copied |-> SubSeq(src, 1, Len(src) - f),
         ret    |-> SumFrom(sizes, Len(src) - f + 1)]

\* a u32 and a u64 as 16-bit units
U32Sizes == <<2, 2>>
U64Sizes == <<2, 2, 2, 2>>

\* struct enc_params: four bool, then fourteen unsigned int
EncParamsSizes == <<1, 1, 1, 1, 4, 4, 4, 4, 4, 4, 4, 4, 4, 4, 4, 4, 4, 4>>

\* conversion of an unsigned value to bool
ToBool(v) == IF v = <<0, 0>> THEN 0 ELSE 1

\* lines 328-352: the fields of struct enc_params in declaration order; the
\* unsigned int fields are below 2^16 and given by their low 16 bits
get_enc_params(r) ==
    LET value  == reg_read(r, PCIRC_ENC_PARAMS_1)
        value1 == reg_read(r, PCIRC_ENC_PARAMS_2)
        value2 == reg_read(r, PCIRC_ENC_PARAMS_3)
        value3 == reg_read(r, PCIRC_ENC_PARAMS_4)
        value4 == reg_read(r, PCIRC_ENC_PARAMS_5)
    IN  <<ToBool(Field(value, L2CACHE_SHIFT, L2CACHE_MASK)),
          ToBool(Field(value, LOW_BANDWIDTH_SHIFT, LOW_BANDWIDTH_MASK)),
          ToBool(Field(value, FILLER_DATA_SHIFT, FILLER_DATA_MASK)),
          ToBool(Field(value, MAX_PICTURE_SIZE_SHIFT, MAX_PICTURE_SIZE_MASK)),
          Field(value, BITRATE_SHIFT, BITRATE_MASK)[1],
          Field(value, GOP_LENGTH_SHIFT, GOP_LENGTH_MASK)[1],
          Field(value1, B_FRAME_SHIFT, B_FRAME_MASK)[1],
          Field(value1, SLICE_SHIFT, SLICE_MASK)[1],
          Field(value1, QP_MODE_SHIFT, QP_MODE_MASK)[1],
          Field(value1, RC_MODE_SHIFT, RC_MODE_MASK)[1],
          Field(value1, ENC_TYPE_SHIFT, ENC_TYPE_MASK)[1],
          Field(value1, GOP_MODE_SHIFT, GOP_MODE_MASK)[1],
          Field(value1, PROFILE_SHIFT, PROFILE_MASK)[1],
          Field(value1, MIN_QP_SHIFT, MIN_QP_MASK)[1],
          Field(value1, MAX_QP_SHIFT, MAX_QP_MASK)[1],
          Field(value2, CPB_SIZE_SHIFT, CPB_SIZE_MASK)[1],
          Field(value3, INITIAL_DELAY_SHIFT, INITIAL_DELAY_MASK)[1],
          Field(value4, PERIODICITY_IDR_SHIFT, PERIODICITY_IDR_MASK)[1]>>

\* lines 321-323: size = value | value1 << 32
get_file_length(r) ==
    LET value  == reg_read(r, PCIRC_READ_FILE_LENGTH)
        value1 == reg_read(r, PCIRC_READ_FILE_LENGTH - 4)
    IN  Join64(value, value1)

\* lines 357-359: struct resolution, width then height
get_resolution(r) ==
    LET value  == reg_read(r, PCIRC_RAW_RESOLUTION)
        width  == Field(value, WIDTH_SHIFT, WIDTH_MASK)
        height == Field(value, HEIGHT_SHIFT, HEIGHT_MASK)
    IN  <<width[1], width[2], height[1], height[2]>>

\* lines 364-365, 404-405 and 410-411
get_usecase_field(r, shift, mask) ==
    Field(reg_read(r, PCIRC_USECASE_MODE), shift, mask)

\* copy_from_user of a u64 that leaves the top `fault` 16-bit units uncopied:
\* the uncopied tail of the kernel buffer is zero-filled, and the number of
\* bytes not copied is returned
copy_from_user(arg, fault) ==
    [value |-> [i \in 1 .. 4 |-> IF i <= 4 - fault THEN arg[i] ELSE 0],
     ret   |-> 2 * fault]

\* mutant: the ready register is assigned the packed bits instead of being
\* read, masked and or-ed
set_offset_regs_clobber(r, offsetReg, readyReg, mask, value1) ==
    LET r1 == reg_write(r, offsetReg, Trunc32(value1))
    IN  reg_write(r1, readyReg, Trunc32(And64(Shr16(value1), Widen(mask))))

\* lines 371-375 and 380-384: the offset register takes the low 32 bits of
\* value1, the ready register's bits 16..31 take (value1 >> 16) & 0xFFFF0000
set_offset_regs(r, offsetReg, readyReg, mask, value1) ==
    LET r1 == reg_write(r, offsetReg, Trunc32(value1))
        v0 == reg_read(r1, readyReg)
        v1 == And32(v0, Not32(mask))
        v2 == Or32(v1, Trunc32(And64(Shr16(value1), Widen(mask))))
    IN  reg_write(r1, readyReg, v2)

\* mutant: an unknown request code is accepted
ioctl_default_accepts(r) ==
    [regs |-> r, ret |-> 0, out |-> <<>>, rd |-> {}, wr |-> {}]

\* lines 415-416: default: return -ENOTTY
ioctl_default(r) ==
    [regs |-> r, ret |-> -ENOTTY, out |-> <<>>, rd |-> {}, wr |-> {}]

\* mutant: a get request acknowledges the read transfer on its way
get_result_acks(r, obj, sizes, fault, rd) ==
    LET cp == copy_to_user(obj, sizes, fault)
    IN  [regs |-> reg_write(r, PCIEP_READ_TRANSFER_DONE, PCIEP_CLR_REG),
         ret |-> cp.ret, out |-> cp.copied, rd |-> rd,
         wr |-> {PCIEP_READ_TRANSFER_DONE}]

\* the result of a control request that only reads registers: obj is what
\* copy_to_user is given, rd the registers reg_read was called on
get_result(r, obj, sizes, fault, rd) ==
    LET cp == copy_to_user(obj, sizes, fault)
    IN  [regs |-> r, ret |-> cp.ret, out |-> cp.copied, rd |-> rd, wr |-> {}]

\* the switch of pciep_driver_file_ioctl: the registers afterwards, the
\* return value, the units copied to the caller's memory (out), and the
\* registers reg_read (rd) and reg_write (wr) were called on
ioctl_result(r, cmd, arg, fault) ==
    LET cp == copy_from_user(arg, fault) IN
    CASE cmd = GET_FILE_LENGTH ->
           get_result(r, get_file_length(r), U64Sizes, fault,
                      {PCIRC_READ_FILE_LENGTH, PCIRC_READ_FILE_LENGTH - 4})
      [] cmd = GET_ENC_PARAMS ->
           get_result(r, get_enc_params(r), EncParamsSizes, fault,
                      {PCIRC_ENC_PARAMS_1, PCIRC_ENC_PARAMS_2,
                       PCIRC_ENC_PARAMS_3, PCIRC_ENC_PARAMS_4,
                       PCIRC_ENC_PARAMS_5})
      [] cmd = GET_RESOLUTION ->
           get_result(r, get_resolution(r), U64Sizes, fault,
                      {PCIRC_RAW_RESOLUTION})
      [] cmd = GET_MODE ->
           get_result(r, get_usecase_field(r, USE_CASE_MODE_SHIFT,
                                           USE_CASE_MODE_MASK),
                      U32Sizes, fault, {PCIRC_USECASE_MODE})
      [] cmd = SET_READ_OFFSET ->
           [regs |-> set_offset_regs(r, PCIEP_READ_BUFFER_OFFSET,
                                     PCIEP_READ_BUFFER_READY,
                                     READ_BUF_HIGH_OFFSET, cp.value),
            ret |-> cp.ret, out |-> <<>>,
            rd |-> {PCIEP_READ_BUFFER_READY},
            wr |-> {PCIEP_READ_BUFFER_OFFSET, PCIEP_READ_BUFFER_READY}]
      [] cmd = SET_WRITE_OFFSET ->
           [regs |-> set_offset_regs(r, PCIEP_WRITE_BUFFER_OFFSET,
                                     PCIEP_WRITE_BUFFER_READY,
                                     WRITE_BUF_HIGH_OFFSET, cp.value),
            ret |-> cp.ret, out |-> <<>>,
            rd |-> {PCIEP_WRITE_BUFFER_READY},
            wr |-> {PCIEP_WRITE_BUFFER_OFFSET, PCIEP_WRITE_BUFFER_READY}]
      [] cmd = SET_READ_TRANSFER_DONE ->
           [regs |-> reg_write(r, PCIEP_READ_TRANSFER_DONE, TRANSFER_DONE_VALUE),
            ret |-> 0, out |-> <<>>, rd |-> {},
            wr |-> {PCIEP_READ_TRANSFER_DONE}]
      [] cmd = SET_WRITE_TRANSFER_DONE ->
           [regs |-> reg_write(r, PCIEP_WRITE_TRANSFER_DONE, TRANSFER_DONE_VALUE),
            ret |-> 0, out |-> <<>>, rd |-> {},
            wr |-> {PCIEP_WRITE_TRANSFER_DONE}]
      [] cmd = CLR_READ_TRANSFER_DONE ->
           [regs |-> reg_write(r, PCIEP_READ_TRANSFER_DONE, PCIEP_CLR_REG),
            ret |-> 0, out |-> <<>>, rd |-> {},
            wr |-> {PCIEP_READ_TRANSFER_DONE}]
      [] cmd = CLR_WRITE_TRANSFER_DONE ->
           [regs |-> reg_write(r, PCIEP_WRITE_TRANSFER_DONE, PCIEP_CLR_REG),
            ret |-> 0, out |-> <<>>, rd |-> {},
            wr |-> {PCIEP_WRITE_TRANSFER_DONE}]
      [] cmd = GET_FPS ->
           get_result(r, get_usecase_field(r, FPS_SHIFT, FPS_MASK),
                      U32Sizes, fault, {PCIRC_USECASE_MODE})
      [] cmd = GET_FORMAT ->
           get_result(r, get_usecase_field(r, FORMAT_SHIFT, FORMAT_MASK),
                      U32Sizes, fault, {PCIRC_USECASE_MODE})
      [] OTHER -> ioctl_default(r)

pciep_driver_file_ioctl(c, cmd, arg, fault) ==
    /\ pc[c] = "idle"
    /\ LET res == ioctl_result(regs, cmd, arg, fault) IN
       /\ regs' = res.regs
       /\ call' = [call EXCEPT ![c] = [Returned("ioctl", cmd, res.ret)
                                          EXCEPT !.arg = arg, !.out = res.out,
                                                 !.rd = res.rd, !.wr = res.wr]]
    /\ pc' = [pc EXCEPT ![c] = "ret"]
    /\ UNCHANGED <<read_complete, write_complete, read_virt_addr,
                   write_virt_addr, is_open, live, badfree>>

\* loff_t offset >> 16 is an arithmetic shift
Sar16(v) == <<v[2], v[3], v[4], IF v[4] >= 32768 THEN 65535 ELSE 0>>

\* mutant: the seek writes the offset register only
lseek_regs_low_only(r, offset) ==
    reg_write(r, PCIEP_READ_BUFFER_OFFSET, Trunc32(offset))

lseek_regs(r, offset) ==
    LET r1 == reg_write(r, PCIEP_READ_BUFFER_OFFSET, Trunc32(offset))
        v0 == reg_read(r1, PCIEP_READ_BUFFER_READY)
        v1 == And32(v0, Not32(READ_BUF_HIGH_OFFSET))
        v2 == Or32(v1, Trunc32(And64(Sar16(offset),
                                     Widen(READ_BUF_HIGH_OFFSET))))
    IN  reg_write(r1, PCIEP_READ_BUFFER_READY, v2)

\* llseek returns the offset it was given
pciep_driver_file_lseek(c, offset) ==
    /\ pc[c] = "idle"
    /\ regs' = lseek_regs(regs, offset)
    /\ call' = [call EXCEPT ![c] = [Returned("lseek", 0, offset)
                                       EXCEPT !.arg = offset]]
    /\ pc' = [pc EXCEPT ![c] = "ret"]
    /\ UNCHANGED <<read_complete, write_complete, read_virt_addr,
                   write_virt_addr, is_open, live, badfree>>

-----------------------------------------------------------------------------
(* The handshake specification: two callers, each with its own open file    *)
(* on the one device, and the three interrupt sources.                      *)

ZeroRegs == [reg \in AllRegs |-> PCIEP_CLR_REG]

\* control request codes and offsets the callers issue
Cmds       == {SET_READ_TRANSFER_DONE, 4}
OffsetArgs == {<<0, 1, 1, 0>>}
Faults     == {0, 4}

Init ==
    /\ regs = ZeroRegs
    /\ read_complete = 0
    /\ write_complete = 0
    /\ read_virt_addr = NULL
    /\ write_virt_addr = NULL
    /\ is_open = FALSE
    /\ live = [d \in Dirs |-> {}]
    /\ badfree = FALSE
    /\ pc = [c \in Callers |-> "closed"]
    /\ call = [c \in Callers |-> NoCall]

Next ==
    \/ \E c \in Callers : pciep_driver_file_open(c)
    \/ \E c \in Callers : pciep_driver_file_release(c)
    \/ \E c \in Callers : Return(c)
    \/ \E c \in Callers, count \in Counts, mem \in Addrs \cup {NULL} :
          pciep_driver_file_read(c, count, mem)
    \/ \E c \in Callers, uncopied \in Counts :
          pciep_driver_file_read_wake(c, uncopied)
    \/ \E c \in Callers, count \in Counts, mem \in Addrs \cup {NULL},
          uncopied \in Counts :
          pciep_driver_file_write(c, count, mem, uncopied)
    \/ \E c \in Callers : pciep_driver_file_write_wake(c)
    \/ \E c \in Callers, cmd \in Cmds, arg \in OffsetArgs, fault \in Faults :
          pciep_driver_file_ioctl(c, cmd, arg, fault)
    \/ xilinx_pciep_read_irq_handler
    \/ xilinx_pciep_write_irq_handler
    \/ xilinx_pciep_host_done_irq_handler

Spec == Init /\ [][Next]_vars

-----------------------------------------------------------------------------
(* The same device with callers that never start a transfer while another   *)
(* transfer of the same direction is in progress.                           *)

NextSerial ==
    \/ \E c \in Callers : pciep_driver_file_open(c)
    \/ \E c \in Callers : pciep_driver_file_release(c)
    \/ \E c \in Callers : Return(c)
    \/ \E c \in Callers, count \in Counts, mem \in Addrs \cup {NULL} :
          /\ Others(c, "read") = {}
          /\ pciep_driver_file_read(c, count, mem)
    \/ \E c \in Callers, uncopied \in Counts :
          pciep_driver_file_read_wake(c, uncopied)
    \/ \E c \in Callers, count \in Counts, mem \in Addrs \cup {NULL},
          uncopied \in Counts :
          /\ Others(c, "write") = {}
          /\ pciep_driver_file_write(c, count, mem, uncopied)
    \/ \E c \in Callers : pciep_driver_file_write_wake(c)
    \/ \E c \in Callers, cmd \in Cmds, arg \in OffsetArgs, fault \in Faults :
          pciep_driver_file_ioctl(c, cmd, arg, fault)
    \/ xilinx_pciep_read_irq_handler
    \/ xilinx_pciep_write_irq_handler
    \/ xilinx_pciep_host_done_irq_handler

SerialSpec == Init /\ [][NextSerial]_vars

-----------------------------------------------------------------------------
(* Control requests, llseek, open and release as functions of the register  *)
(* block: one caller issues them one after the other, starting from         *)
(* register contents of any kind (the block is shared with the PCIe peer,   *)
(* which writes it too).                                                    *)

\* ready-register words: flag clear, flag set, and bits 1..31 in use
CtlReadyWords == {<<0, 0>>, <<1, 0>>, <<65534, 43690>>, <<32769, 1>>}
\* contents of the other registers
CtlOtherWords == {<<0, 0>>, <<48879, 57005>>}

CtlRegs(rd, wr, other) ==
    [reg \in AllRegs |-> IF reg = PCIEP_READ_BUFFER_READY THEN rd
                      ELSE IF reg = PCIEP_WRITE_BUFFER_READY THEN wr
                      ELSE other]

\* u64 arguments: 0x10000, a value with all four limbs in use, all ones, and
\* a negative loff_t
CtlArgs   == {<<0, 1, 0, 0>>, <<4, 2, 3, 5>>, <<65535, 65535, 65535, 65535>>,
              <<0, 0, 0, 32768>>}
CtlFaults == {0, 2, 4}
CtlCmds   == {SET_READ_OFFSET, SET_WRITE_OFFSET, SET_READ_TRANSFER_DONE,
              CLR_READ_TRANSFER_DONE, SET_WRITE_TRANSFER_DONE,
              CLR_WRITE_TRANSFER_DONE, 4, 13}
\* the get requests; what their argument points to is only written
GetCmds   == {GET_FILE_LENGTH, GET_ENC_PARAMS, GET_RESOLUTION, GET_MODE,
              GET_FPS, GET_FORMAT}
GetArg    == <<0, 0, 0, 0>>
CtlCaller == "p"

InitCtl ==
    /\ \E rd \in CtlReadyWords, wr \in CtlReadyWords, other \in CtlOtherWords :
          regs = CtlRegs(rd, wr, other)
    /\ \E used \in BOOLEAN :
          \* either the device is closed and has run no transfer yet, or it
          \* is open and used: transfers have run (the descriptors keep the
          \* address of the buffer freed last) and an interrupt of each
          \* direction has been handled since
          /\ read_complete = (IF used THEN MaxDone ELSE 0)
          /\ write_complete = (IF used THEN MaxDone ELSE 0)
          /\ read_virt_addr = (IF used THEN NumBufs ELSE NULL)
          /\ write_virt_addr = (IF used THEN NumBufs ELSE NULL)
          /\ is_open = used
          /\ pc = [c \in Callers |-> IF used /\ c = CtlCaller THEN "idle"
                                      ELSE "closed"]
    /\ live = [d \in Dirs |-> {}]
    /\ badfree = FALSE
    /\ call = [c \in Callers |-> NoCall]

NextCtl ==
    \/ pciep_driver_file_open(CtlCaller)
    \/ pciep_driver_file_release(CtlCaller)
    \/ Return(CtlCaller)
    \/ \E cmd \in CtlCmds, arg \in CtlArgs, fault \in CtlFaults :
          pciep_driver_file_ioctl(CtlCaller, cmd, arg, fault)
    \/ \E cmd \in GetCmds, fault \in CtlFaults :
          pciep_driver_file_ioctl(CtlCaller, cmd, GetArg, fault)
    \/ \E offset \in CtlArgs : pciep_driver_file_lseek(CtlCaller, offset)

CtlSpec == InitCtl /\ [][NextCtl]_vars

-----------------------------------------------------------------------------
(* The get requests: one caller reads the registers the PCIe peer writes,   *)
(* and the peer rewrites them between the requests.                         *)

\* resolution words: 0x04380780 (1920 x 1080), all ones, 0x80000001, zero
GetResWords  == {<<1920, 1080>>, <<65535, 65535>>, <<1, 32768>>, <<0, 0>>}
\* use-case words: each of mode, format and fps alone all ones, all zero,
\* and bits 15..31 set
GetModeWords == {<<3, 0>>, <<28, 0>>, <<32736, 0>>, <<32768, 65535>>, <<0, 0>>}
\* the file-length words at 0x3c, 0x40 and 0x44
GetLowWords   == {<<17, 34>>, <<0, 0>>}
GetBelowWords == {<<51, 68>>, <<0, 0>>}
GetAboveWords == {<<85, 102>>}

\* what the peer may write into a register it owns
PeerWords(reg) ==
    CASE reg = PCIRC_RAW_RESOLUTION -> GetResWords
      [] reg = PCIRC_USECASE_MODE -> GetModeWords
      [] reg = PCIRC_READ_FILE_LENGTH -> GetLowWords
      [] reg = PCIRC_READ_FILE_LENGTH - 4 -> GetBelowWords
      [] reg = PCIRC_READ_BUFFER_TRANSFER_DONE -> GetAboveWords
      [] OTHER -> {}

\* the PCIe peer writes one of its registers
peer_write(reg, word) ==
    /\ word \in PeerWords(reg)
    /\ regs' = [regs EXCEPT ![reg] = word]
    /\ UNCHANGED <<read_complete, write_complete, read_virt_addr,
                   write_virt_addr, is_open, live, badfree, pc, call>>

InitGet ==
    /\ regs = [ZeroRegs EXCEPT ![PCIRC_RAW_RESOLUTION] = <<1920, 1080>>,
                               ![PCIRC_READ_BUFFER_TRANSFER_DONE] = <<85, 102>>]
    /\ read_complete = 0
    /\ write_complete = 0
    /\ read_virt_addr = NULL
    /\ write_virt_addr = NULL
    /\ is_open = TRUE
    /\ pc = [c \in Callers |-> IF c = CtlCaller THEN "idle" ELSE "closed"]
    /\ live = [d \in Dirs |-> {}]
    /\ badfree = FALSE
    /\ call = [c \in Callers |-> NoCall]

NextGet ==
    \/ \E reg \in RcRegs, word \in GetResWords \cup GetModeWords
                                \cup GetLowWords \cup GetBelowWords
                                \cup GetAboveWords :
          peer_write(reg, word)
    \/ \E cmd \in GetCmds, fault \in CtlFaults :
          pciep_driver_file_ioctl(CtlCaller, cmd, GetArg, fault)
    \/ Return(CtlCaller)

GetSpec == InitGet /\ [][NextGet]_vars

-----------------------------------------------------------------------------
(* The encoding parameters: the peer packs them into the five parameter     *)
(* words, the caller fetches them with GET_ENC_PARAMS.                      *)

\* u32 << n for n in 0..31
Shl32(v, n) ==
    IF n >= 16 THEN <<0, (v[1] * Pow2(n - 16)) % 65536>>
    ELSE <<(v[1] * Pow2(n)) % 65536,
           (v[2] * Pow2(n) + v[1] \div Pow2(16 - n)) % 65536>>

EncField(reg, shift, mask, idx) ==
    [reg |-> reg, shift |-> shift, mask |-> mask, idx |-> idx]

\* lines 328-351: the register, shift and mask of each field, and its place
\* in struct enc_params
EncFields ==
    {EncField(PCIRC_ENC_PARAMS_1, L2CACHE_SHIFT, L2CACHE_MASK, 1),
     EncField(PCIRC_ENC_PARAMS_1, LOW_BANDWIDTH_SHIFT, LOW_BANDWIDTH_MASK, 2),
     EncField(PCIRC_ENC_PARAMS_1, FILLER_DATA_SHIFT, FILLER_DATA_MASK, 3),
     EncField(PCIRC_ENC_PARAMS_1, MAX_PICTURE_SIZE_SHIFT,
              MAX_PICTURE_SIZE_MASK, 4),
     EncField(PCIRC_ENC_PARAMS_1, BITRATE_SHIFT, BITRATE_MASK, 5),
     EncField(PCIRC_ENC_PARAMS_1, GOP_LENGTH_SHIFT, GOP_LENGTH_MASK, 6),
     EncField(PCIRC_ENC_PARAMS_2, B_FRAME_SHIFT, B_FRAME_MASK, 7),
     EncField(PCIRC_ENC_PARAMS_2, SLICE_SHIFT, SLICE_MASK, 8),
     EncField(PCIRC_ENC_PARAMS_2, QP_MODE_SHIFT, QP_MODE_MASK, 9),
     EncField(PCIRC_ENC_PARAMS_2, RC_MODE_SHIFT, RC_MODE_MASK, 10),
     EncField(PCIRC_ENC_PARAMS_2, ENC_TYPE_SHIFT, ENC_TYPE_MASK, 11),
     EncField(PCIRC_ENC_PARAMS_2, GOP_MODE_SHIFT, GOP_MODE_MASK, 12),
     EncField(PCIRC_ENC_PARAMS_2, PROFILE_SHIFT, PROFILE_MASK, 13),
     EncField(PCIRC_ENC_PARAMS_2, MIN_QP_SHIFT, MIN_QP_MASK, 14),
     EncField(PCIRC_ENC_PARAMS_2, MAX_QP_SHIFT, MAX_QP_MASK, 15),
     EncField(PCIRC_ENC_PARAMS_3, CPB_SIZE_SHIFT, CPB_SIZE_MASK, 16),
     EncField(PCIRC_ENC_PARAMS_4, INITIAL_DELAY_SHIFT, INITIAL_DELAY_MASK, 17),
     EncField(PCIRC_ENC_PARAMS_5, PERIODICITY_IDR_SHIFT,
              PERIODICITY_IDR_MASK, 18)}

EncRegs == {f.reg : f \in EncFields}

\* the bits of the register word that field f occupies
FieldBits(f) == Shl32(f.mask, f.shift)

\* the word with v in field f and the bits of `fill` everywhere else
Placed(f, v, fill) ==
    Or32(Shl32(v, f.shift), And32(fill, Not32(FieldBits(f))))

\* what the peer packs: a field value (zero, all ones, or 0101..01 cut to
\* the width of the field) and the bits it leaves everywhere else in the word
EncMid(f) == And32(<<21845, 0>>, f.mask)

EncValues(f) == {<<0, 0>>, f.mask, EncMid(f)}

EncPacked(f) ==
    {Placed(f, <<0, 0>>, <<65535, 65535>>), Placed(f, f.mask, <<0, 0>>),
     Placed(f, EncMid(f), <<65535, 65535>>)}

\* the words the peer may leave in each parameter register
EncWords ==
    [reg \in EncRegs |->
        UNION {EncPacked(f) : f \in {g \in EncFields : g.reg = reg}}]

\* the peer has written the five parameter words, the device is open
InitEnc ==
    /\ \E w1 \in EncWords[PCIRC_ENC_PARAMS_1],
          w2 \in EncWords[PCIRC_ENC_PARAMS_2],
          w3 \in EncWords[PCIRC_ENC_PARAMS_3],
          w4 \in EncWords[PCIRC_ENC_PARAMS_4],
          w5 \in EncWords[PCIRC_ENC_PARAMS_5] :
          regs = [ZeroRegs EXCEPT ![PCIRC_ENC_PARAMS_1] = w1,
                                  ![PCIRC_ENC_PARAMS_2] = w2,
                                  ![PCIRC_ENC_PARAMS_3] = w3,
                                  ![PCIRC_ENC_PARAMS_4] = w4,
                                  ![PCIRC_ENC_PARAMS_5] = w5]
    /\ read_complete = 0
    /\ write_complete = 0
    /\ read_virt_addr = NULL
    /\ write_virt_addr = NULL
    /\ is_open = TRUE
    /\ pc = [c \in Callers |-> IF c = CtlCaller THEN "idle" ELSE "closed"]
    /\ live = [d \in Dirs |-> {}]
    /\ badfree = FALSE
    /\ call = [c \in Callers |-> NoCall]

NextEnc ==
    \/ \E fault \in CtlFaults :
          pciep_driver_file_ioctl(CtlCaller, GET_ENC_PARAMS, GetArg, fault)
    \/ Return(CtlCaller)

EncSpec == InitEnc /\ [][NextEnc]_vars

-----------------------------------------------------------------------------
(* State functions the properties are stated with *)

ReadyReg(d) == IF d = "read" THEN PCIEP_READ_BUFFER_READY
               ELSE PCIEP_WRITE_BUFFER_READY

\* bit 0 of the direction's ready register
ReadyBit(d) == regs[ReadyReg(d)][1] % 2

Waiting(c) == pc[c] \in {"read_wait", "write_wait"}

DirOf(c) == IF pc[c] = "read_wait" THEN "read" ELSE "write"

\* a step in which caller c enters read() or write()
Entered(c) == pc[c] = "idle" /\ pc'[c] # "idle"
              /\ call'[c].op \in {"read", "write"}

-----------------------------------------------------------------------------
(* One caller, with every register access of a transfer a step of its own:  *)
(* between any two of them the interrupt handlers may run.                  *)

\* the interrupt handlers are modelled while a completion counter is below
MaxSignals == 2

AddrReg(d) == IF d = "read" THEN PCIEP_READ_BUFFER_ADDR
              ELSE PCIEP_WRITE_BUFFER_ADDR

SizeReg(d) == IF d = "read" THEN PCIEP_READ_BUFFER_SIZE
              ELSE PCIEP_WRITE_BUFFER_SIZE

\* this->read_phys_addr or this->write_phys_addr
phys_addr(d) == IF d = "read" THEN read_virt_addr ELSE write_virt_addr

\* mutant: the ready bit is set before the address and the size are written
announce_steps_ready_first ==
    <<"read_ready", "write_ready", "write_addr", "write_size">>

\* lines 449-453 and 501-505, in program order
announce_steps == <<"write_addr", "write_size", "read_ready", "write_ready">>

\* lines 435-447: the size check and the allocation of read()
read_alloc(c, count, mem) ==
    /\ pc[c] = "idle"
    /\ mem \in AllocResults
    /\ IF count_invalid(count) THEN
          /\ mem = NULL
          /\ pc' = [pc EXCEPT ![c] = "ret"]
          /\ call' = [call EXCEPT ![c] = Returned("read", count, -EINVAL)]
          /\ UNCHANGED <<read_virt_addr, live>>
       ELSE IF alloc_failed(mem) THEN
          /\ read_virt_addr' = NULL
          /\ pc' = [pc EXCEPT ![c] = "ret"]
          /\ call' = [call EXCEPT ![c] = Returned("read", count, -ENOMEM)]
          /\ UNCHANGED live
       ELSE
          /\ read_virt_addr' = mem
          /\ live' = [live EXCEPT !["read"] = @ \cup {mem}]
          /\ pc' = [pc EXCEPT ![c] = "announce"]
          /\ call' = [call EXCEPT ![c] =
                         [NoCall EXCEPT !.op = "read", !.count = count,
                                        !.buf = mem, !.step = 1]]
    /\ UNCHANGED <<regs, read_complete, write_complete, write_virt_addr,
                   is_open, badfree>>

\* lines 483-495: the size check and the allocation of write()
write_alloc(c, count, mem) ==
    /\ pc[c] = "idle"
    /\ mem \in AllocResults
    /\ IF count_invalid(count) THEN
          /\ mem = NULL
          /\ pc' = [pc EXCEPT ![c] = "ret"]
          /\ call' = [call EXCEPT ![c] = Returned("write", count, -EINVAL)]
          /\ UNCHANGED <<write_virt_addr, live>>
       ELSE IF alloc_failed(mem) THEN
          /\ write_virt_addr' = NULL
          /\ pc' = [pc EXCEPT ![c] = "ret"]
          /\ call' = [call EXCEPT ![c] = Returned("write", count, -ENOMEM)]
          /\ UNCHANGED live
       ELSE
          /\ write_virt_addr' = mem
          /\ live' = [live EXCEPT !["write"] = @ \cup {mem}]
          /\ pc' = [pc EXCEPT ![c] = "copy"]
          /\ call' = [call EXCEPT ![c] =
                         [NoCall EXCEPT !.op = "write", !.count = count,
                                        !.buf = mem, !.step = 1]]
    /\ UNCHANGED <<regs, read_complete, write_complete, read_virt_addr,
                   is_open, badfree>>

\* lines 497-499 and 509-514: copy_from_user leaves `uncopied` bytes; when
\* that is not 0 the buffer is freed and the call returns it
write_copy(c, uncopied) ==
    /\ pc[c] = "copy"
    /\ uncopied \in 0 .. call[c].count
    /\ IF uncopied # 0 THEN
          /\ live' = FreeLive(write_virt_addr)
          /\ badfree' = (badfree \/ write_virt_addr \notin AllLive)
          /\ pc' = [pc EXCEPT ![c] = "ret"]
          /\ call' = [call EXCEPT ![c] =
                         Returned("write", call[c].count, uncopied)]
       ELSE
          /\ pc' = [pc EXCEPT ![c] = "announce"]
          /\ call' = [call EXCEPT ![c].copied = TRUE]
          /\ UNCHANGED <<live, badfree>>
    /\ UNCHANGED <<regs, read_complete, write_complete, read_virt_addr,
                   write_virt_addr, is_open>>

\* the caller's position after one more register access of the announcement
announce_advance(c) ==
    /\ pc' = [pc EXCEPT ![c] = IF call[c].step = Len(announce_steps)
                               THEN WaitPc(call[c].op) ELSE "announce"]
    /\ UNCHANGED <<read_complete, write_complete, read_virt_addr,
                   write_virt_addr, is_open, live, badfree>>

\* lines 449 and 501: reg_write(this, PCIEP_READ_BUFFER_ADDR, read_phys_addr)
announce_write_addr(c) ==
    /\ pc[c] = "announce"
    /\ announce_steps[call[c].step] = "write_addr"
    /\ regs' = reg_write(regs, AddrReg(call[c].op),
                         Trunc32(FromNat(phys_addr(call[c].op))))
    /\ call' = [call EXCEPT ![c].step = @ + 1]
    /\ announce_advance(c)

\* lines 450 and 502: reg_write(this, PCIEP_READ_BUFFER_SIZE, count)
announce_write_size(c) ==
    /\ pc[c] = "announce"
    /\ announce_steps[call[c].step] = "write_size"
    /\ regs' = reg_write(regs, SizeReg(call[c].op),
                         Trunc32(FromNat(call[c].count)))
    /\ call' = [call EXCEPT ![c].step = @ + 1]
    /\ announce_advance(c)

\* lines 451 and 503: value = reg_read(this, PCIEP_READ_BUFFER_READY)
announce_read_ready(c) ==
    /\ pc[c] = "announce"
    /\ announce_steps[call[c].step] = "read_ready"
    /\ call' = [call EXCEPT ![c].step = @ + 1,
                            ![c].value = reg_read(regs, ReadyReg(call[c].op))]
    /\ UNCHANGED regs
    /\ announce_advance(c)

\* lines 452-453 and 504-505: value |= SET_BUFFER_RDY; reg_write
announce_write_ready(c) ==
    /\ pc[c] = "announce"
    /\ announce_steps[call[c].step] = "write_ready"
    /\ regs' = reg_write(regs, ReadyReg(call[c].op),
                         Or32(call[c].value, SET_BUFFER_RDY))
    /\ call' = [call EXCEPT ![c].step = @ + 1]
    /\ announce_advance(c)

NextStep ==
    \/ pciep_driver_file_open(CtlCaller)
    \/ pciep_driver_file_release(CtlCaller)
    \/ Return(CtlCaller)
    \/ \E count \in Counts, mem \in Addrs \cup {NULL} :
          read_alloc(CtlCaller, count, mem)
    \/ \E count \in Counts, mem \in Addrs \cup {NULL} :
          write_alloc(CtlCaller, count, mem)
    \/ \E uncopied \in Counts : write_copy(CtlCaller, uncopied)
    \/ announce_write_addr(CtlCaller)
    \/ announce_write_size(CtlCaller)
    \/ announce_read_ready(CtlCaller)
    \/ announce_write_ready(CtlCaller)
    \/ \E uncopied \in Counts :
          pciep_driver_file_read_wake(CtlCaller, uncopied)
    \/ pciep_driver_file_write_wake(CtlCaller)
    \/ read_irq_handler(MaxSignals)
    \/ write_irq_handler(MaxSignals)

StepSpec == Init /\ [][NextStep]_vars

-----------------------------------------------------------------------------
(* A transfer in every handshake state, with the session-level events       *)
(* around it: one caller is blocked in a transfer (or idle), the other      *)
(* opens and closes its file, and the three interrupts arrive.  The         *)
(* register block starts with contents of any kind.                         *)

HoldCaller == "q"

\* the record of a transfer of direction d that waits for its completion
HeldCall(d) == [NoCall EXCEPT !.op = d, !.count = 1, !.buf = 1]

InitHold ==
    /\ \E rd \in CtlReadyWords, wr \in CtlReadyWords, other \in CtlOtherWords :
          regs = CtlRegs(rd, wr, other)
    /\ \E held \in Dirs \cup {"none"} :
          /\ pc = [c \in Callers |->
                     IF c = CtlCaller /\ held # "none" THEN WaitPc(held)
                     ELSE "idle"]
          /\ call = [c \in Callers |->
                       IF c = CtlCaller /\ held # "none" THEN HeldCall(held)
                       ELSE NoCall]
          /\ read_virt_addr = (IF held = "read" THEN 1 ELSE NULL)
          /\ write_virt_addr = (IF held = "write" THEN 1 ELSE NULL)
          /\ live = [d \in Dirs |-> IF d = held THEN {1} ELSE {}]
    /\ read_complete = 0
    /\ write_complete = 0
    /\ is_open = TRUE
    /\ badfree = FALSE

NextHold ==
    \/ pciep_driver_file_open(HoldCaller)
    \/ pciep_driver_file_release(HoldCaller)
    \/ \E c \in Callers : Return(c)
    \/ \E uncopied \in Counts :
          pciep_driver_file_read_wake(CtlCaller, uncopied)
    \/ pciep_driver_file_write_wake(CtlCaller)
    \/ xilinx_pciep_read_irq_handler
    \/ xilinx_pciep_write_irq_handler
    \/ xilinx_pciep_host_done_irq_handler

HoldSpec == InitHold /\ [][NextHold]_vars

-----------------------------------------------------------------------------
(* C1 .. C10 *)

\* C1: a transfer that has announced its buffer copies it out and releases it
\* only after its direction's interrupt handler has run since the
\* announcement: no transfer leaves wait_for_completion without that.
C1_ReleaseOnlyAfterCompletionIrq ==
    [][\A c \in Callers :
          (Waiting(c) /\ pc'[c] = "ret") => call[c].irq]_vars

\* the pool after caller c entered read() or write()
C2_EnterStep(c) ==
    LET d == call'[c].op IN
    IF pc'[c] = "ret" THEN live' = live /\ live'[d] = {}
    ELSE /\ call'[c].buf \in Addrs
         /\ call'[c].buf \notin AllLive
         /\ live'[d] = {call'[c].buf}
         /\ \A e \in Dirs \ {d} : live'[e] = live[e]

\* the pool when caller c leaves wait_for_completion
C2_WakeStep(c) ==
    LET d == DirOf(c) IN
    /\ (IF d = "read" THEN read_virt_addr ELSE write_virt_addr) = call[c].buf
    /\ call[c].buf \in live[d]
    /\ live'[d] = {}
    /\ \A e \in Dirs \ {d} : live'[e] = live[e]

\* C2: with no other call of the same direction in progress, a buffer that
\* read() or write() allocated is the only live buffer of its direction
\* while the call waits, the wake-up releases that same buffer, still live,
\* and nothing else; a call that returns at once (count 0, allocation
\* failure, copy_from_user failure) leaves the pool as it was; and when the
\* call has returned no buffer of its direction is live.
C2_OneReleasePerAllocation ==
    /\ [][\A c \in Callers :
            /\ Entered(c) => C2_EnterStep(c)
            /\ (Waiting(c) /\ pc'[c] = "ret") => C2_WakeStep(c)
            /\ (Waiting(c) /\ pc'[c] = pc[c]) =>
                   call[c].buf \in live'[DirOf(c)]]_vars
    /\ [](~badfree)

C2_Witness ==
    \E c \in Callers, o \in Callers :
        /\ pc[c] = "ret" /\ call[c].op = "read" /\ call[c].ret = 1
        /\ pc[o] = "ret" /\ call[o].op = "write" /\ call[o].ret = 1
        /\ read_virt_addr \in Addrs /\ write_virt_addr \in Addrs
        /\ AllLive = {}

\* the ready, transfer-done, byte-offset and byte-count registers
C3_ResetRegs == {PCIEP_READ_BUFFER_READY, PCIEP_READ_BUFFER_OFFSET,
                 PCIEP_READ_BUFFER_SIZE, PCIEP_READ_TRANSFER_DONE,
                 PCIEP_WRITE_BUFFER_READY, PCIEP_WRITE_BUFFER_OFFSET,
                 PCIEP_WRITE_BUFFER_SIZE, PCIEP_WRITE_TRANSFER_DONE}

\* C3: after the reset done by open, the ready, transfer-done, byte-offset
\* and byte-count registers of both directions read as zero.
C3_OpenZeroesBothDirections ==
    [][\A c \in Callers :
          (pc[c] = "closed" /\ pc'[c] = "ret") =>
             \A reg \in C3_ResetRegs : regs'[reg] = <<0, 0>>]_vars

\* C4: read() or write() with count <= 0 returns -EINVAL without blocking and
\* leaves the registers, both descriptors, both completions and the buffer
\* pool as they were.
C4_NonPositiveCountRejected ==
    [][\A c \in Callers :
          (Entered(c) /\ call'[c].count <= 0) =>
             /\ pc'[c] = "ret"
             /\ call'[c].ret = -EINVAL
             /\ UNCHANGED <<regs, read_virt_addr, write_virt_addr,
                            read_complete, write_complete, live>>]_vars

C4_Witness ==
    \E c \in Callers, o \in Callers :
        /\ pc[c] = "ret" /\ call[c].op = "read" /\ call[c].count = 0
        /\ call[c].ret = -EINVAL
        /\ pc[o] = "ret" /\ call[o].op = "write" /\ call[o].count = 0
        /\ call[o].ret = -EINVAL

\* a step in which the allocation of read() or write() fails
C5_AllocFailureStep ==
    \A c \in Callers :
        (/\ Entered(c)
         /\ call'[c].count > 0
         /\ IF call'[c].op = "read" THEN read_virt_addr' = NULL
                                    ELSE write_virt_addr' = NULL) =>
           /\ pc'[c] = "ret"
           /\ call'[c].ret = -ENOMEM
           /\ UNCHANGED <<regs, read_complete, write_complete, live, badfree>>

\* an idle caller can start a transfer of either direction
C5_StillUsable ==
    \A c \in Callers, mem \in Addrs :
        (pc[c] = "idle" /\ mem \notin AllLive) =>
           /\ ENABLED pciep_driver_file_read(c, 1, mem)
           /\ ENABLED pciep_driver_file_write(c, 1, mem, 0)

\* C5: when dma_alloc_coherent fails, read() or write() returns -ENOMEM
\* without writing a register, without consuming a completion and without
\* releasing a buffer; and whatever happened before, an idle caller can
\* start a transfer with any buffer the pool can hand out.
C5_AllocFailure == [][C5_AllocFailureStep]_vars /\ []C5_StillUsable

C5_Witness ==
    \E c \in Callers, o \in Callers :
        /\ pc[c] = "ret" /\ call[c].op = "read" /\ call[c].ret = -ENOMEM
        /\ pc[o] = "ret" /\ call[o].op = "write" /\ call[o].ret = -ENOMEM
        /\ read_virt_addr = NULL /\ write_virt_addr = NULL

\* a step in which caller c runs the SET_READ_OFFSET or SET_WRITE_OFFSET
\* control request
SetOffsetStep(c) ==
    /\ pc[c] = "idle" /\ pc'[c] = "ret"
    /\ call'[c].op = "ioctl"
    /\ call'[c].count \in {SET_READ_OFFSET, SET_WRITE_OFFSET}

OffsetRegOf(cmd) == IF cmd = SET_READ_OFFSET THEN PCIEP_READ_BUFFER_OFFSET
                    ELSE PCIEP_WRITE_BUFFER_OFFSET

ReadyRegOf(cmd) == IF cmd = SET_READ_OFFSET THEN PCIEP_READ_BUFFER_READY
                   ELSE PCIEP_WRITE_BUFFER_READY

C7_ReadyWordUpdate ==
    [][\A c \in Callers :
          SetOffsetStep(c) =>
             LET value == copy_from_user(call'[c].arg,
                                         call'[c].ret \div 2).value
                 reg   == ReadyRegOf(call'[c].count)
             IN  /\ regs'[reg][1] = regs[reg][1]
                 /\ regs'[reg][2] = value[3]]_vars

C7_Witness ==
    \E c \in Callers :
        /\ pc[c] = "ret" /\ call[c].op = "ioctl" /\ call[c].ret = 0
        /\ call[c].count = SET_WRITE_OFFSET
        /\ call[c].arg = <<4, 2, 3, 5>>
        /\ regs[PCIEP_WRITE_BUFFER_READY] = <<65534, 3>>

\* the registers of the read direction
ReadRegs == {PCIEP_READ_BUFFER_READY, PCIEP_READ_BUFFER_ADDR,
             PCIEP_READ_BUFFER_OFFSET, PCIEP_READ_BUFFER_SIZE,
             PCIEP_READ_TRANSFER_DONE}

\* what the read direction owns, and what the write direction owns
ReadSide ==
    <<[reg \in ReadRegs |-> regs[reg]], read_virt_addr, read_complete,
      [c \in Callers |-> IF pc[c] = "read_wait" THEN call[c] ELSE NoCall],
      [c \in Callers |-> pc[c] = "read_wait"]>>

WriteSide ==
    <<[reg \in Regs \ ReadRegs |-> regs[reg]], write_virt_addr, write_complete,
      [c \in Callers |-> IF pc[c] = "write_wait" THEN call[c] ELSE NoCall],
      [c \in Callers |-> pc[c] = "write_wait"]>>

\* the steps of the read direction, and those of the write direction
ReadStep ==
    \/ xilinx_pciep_read_irq_handler
    \/ \E c \in Callers, count \in Counts, mem \in Addrs \cup {NULL} :
          pciep_driver_file_read(c, count, mem)
    \/ \E c \in Callers, uncopied \in Counts :
          pciep_driver_file_read_wake(c, uncopied)

WriteStep ==
    \/ xilinx_pciep_write_irq_handler
    \/ \E c \in Callers, count \in Counts, mem \in Addrs \cup {NULL},
          uncopied \in Counts :
          pciep_driver_file_write(c, count, mem, uncopied)
    \/ \E c \in Callers : pciep_driver_file_write_wake(c)

\* a blocked call whose completion is signalled can return
C8_CanReturn ==
    \A c \in Callers :
        /\ (pc[c] = "read_wait" /\ read_complete > 0) =>
              ENABLED pciep_driver_file_read_wake(c, 0)
        /\ (pc[c] = "write_wait" /\ write_complete > 0) =>
              ENABLED pciep_driver_file_write_wake(c)

\* C8: the two directions are independent.  A step of the write direction
\* (write(), its wake-up, the write interrupt handler) leaves the read
\* direction's registers, descriptor, completion and blocked callers as they
\* were, and the other way round; a blocked call whose completion has been
\* signalled can return whatever the other direction is doing.
C8_DirectionsIndependent ==
    /\ [][WriteStep => UNCHANGED ReadSide]_vars
    /\ [][ReadStep => UNCHANGED WriteSide]_vars
    /\ []C8_CanReturn

C8_Witness ==
    \E c \in Callers, o \in Callers :
        /\ pc[c] = "ret" /\ call[c].op = "read" /\ call[c].ret = 0
        /\ call[c].count > 0
        /\ pc[o] = "write_wait" /\ ~call[o].irq /\ ReadyBit("write") = 1

\* C9: at most one allocated and not yet released buffer exists per
\* direction, and no buffer is released twice.
C9_OneLiveBufferPerDirection ==
    /\ \A d \in Dirs : Cardinality(live[d]) <= 1
    /\ ~badfree

\* C10: a call that has announced its buffer stays blocked, its buffer
\* allocated, for as long as its direction's interrupt handler has not run
\* since the announcement.
C10_BlockedUntilCompletionIrq ==
    [][\A c \in Callers :
          (Waiting(c) /\ ~call[c].irq) =>
             /\ pc'[c] = pc[c]
             /\ call[c].buf \in live'[DirOf(c)]]_vars

-----------------------------------------------------------------------------
(* C11 .. C20 *)

\* a step in which caller c runs a control request
IoctlStep(c) == pc[c] = "idle" /\ pc'[c] # "idle" /\ call'[c].op = "ioctl"

\* the request codes the switch has a case for
IoctlCodes == {GET_FILE_LENGTH, GET_ENC_PARAMS, SET_READ_OFFSET,
               SET_WRITE_OFFSET, SET_READ_TRANSFER_DONE,
               CLR_READ_TRANSFER_DONE, SET_WRITE_TRANSFER_DONE,
               CLR_WRITE_TRANSFER_DONE, GET_RESOLUTION, GET_MODE, GET_FPS,
               GET_FORMAT}

\* C11: a control request whose code is not one of the defined codes (0x4
\* among them) returns -ENOTTY, reads no register, writes no register and
\* copies nothing to the caller's memory.
C11_UnknownCodeUnsupported ==
    [][\A c \in Callers :
          (IoctlStep(c) /\ call'[c].count \notin IoctlCodes) =>
             /\ call'[c].ret = -ENOTTY
             /\ call'[c].rd = {} /\ call'[c].wr = {}
             /\ call'[c].out = <<>>
             /\ regs' = regs]_vars

C11_Witness ==
    \E c \in Callers :
        /\ pc[c] = "ret" /\ call[c].op = "ioctl" /\ call[c].count = 4
        /\ call[c].ret = -ENOTTY
        /\ call[c].arg = <<65535, 65535, 65535, 65535>>
        /\ regs[PCIEP_READ_BUFFER_ADDR] = <<48879, 57005>>

\* the registers each control request is named after
NamedRegs(cmd) ==
    CASE cmd \in {SET_READ_TRANSFER_DONE, CLR_READ_TRANSFER_DONE} ->
           {PCIEP_READ_TRANSFER_DONE}
      [] cmd \in {SET_WRITE_TRANSFER_DONE, CLR_WRITE_TRANSFER_DONE} ->
           {PCIEP_WRITE_TRANSFER_DONE}
      [] cmd = SET_READ_OFFSET ->
           {PCIEP_READ_BUFFER_OFFSET, PCIEP_READ_BUFFER_READY}
      [] cmd = SET_WRITE_OFFSET ->
           {PCIEP_WRITE_BUFFER_OFFSET, PCIEP_WRITE_BUFFER_READY}
      [] OTHER -> {}

\* C12: every control request returns in the step it is made (it never
\* waits), writes and changes only the registers it is named after (none
\* for a get request), and leaves both completions, both descriptors and
\* the buffer pool as they were.
C12_OnlyNamedRegisters ==
    [][\A c \in Callers :
          (pc[c] = "idle" /\ pc'[c] # "idle" /\ call'[c].op = "ioctl") =>
             /\ pc'[c] = "ret"
             /\ call'[c].wr \subseteq NamedRegs(call'[c].count)
             /\ \A reg \in AllRegs \ NamedRegs(call'[c].count) :
                    regs'[reg] = regs[reg]
             /\ UNCHANGED <<read_complete, write_complete, read_virt_addr,
                            write_virt_addr, live, badfree>>]_vars

C12_Witness ==
    \E c \in Callers :
        /\ pc[c] = "ret" /\ call[c].op = "ioctl"
        /\ call[c].count = SET_WRITE_OFFSET /\ call[c].ret = 0
        /\ call[c].arg = <<4, 2, 3, 5>>
        /\ regs[PCIEP_WRITE_BUFFER_OFFSET] = <<4, 2>>
        /\ regs[PCIEP_READ_BUFFER_OFFSET] = <<48879, 57005>>
        /\ regs[PCIEP_READ_BUFFER_READY] = <<65534, 43690>>
        /\ read_complete = MaxDone /\ read_virt_addr = NumBufs

\* C13: get-resolution returns width = bits 0..15 and height = bits 16..31
\* of the word at 0x54; get-mode, get-format and get-fps return bits 0..1,
\* 2..4 and 5..14 of the word at 0x58; each taken from the register as it
\* is when the request is made.
C13_GetDecodesRegisterAtRequest ==
    [][\A c \in Callers :
          (IoctlStep(c) /\ call'[c].ret = 0) =>
             LET res  == regs[PCIRC_RAW_RESOLUTION]
                 mode == regs[PCIRC_USECASE_MODE]
                 cmd  == call'[c].count
             IN  /\ cmd = GET_RESOLUTION =>
                       call'[c].out = <<res[1], 0, res[2], 0>>
                 /\ cmd = GET_MODE =>
                       call'[c].out = <<mode[1] % 4, 0>>
                 /\ cmd = GET_FORMAT =>
                       call'[c].out = <<(mode[1] \div 4) % 8, 0>>
                 /\ cmd = GET_FPS =>
                       call'[c].out = <<(mode[1] \div 32) % 1024, 0>>]_vars

C13_Witness ==
    \E c \in Callers :
        /\ pc[c] = "ret" /\ call[c].op = "ioctl" /\ call[c].ret = 0
        /\ call[c].count = GET_RESOLUTION
        /\ regs[PCIRC_RAW_RESOLUTION] = <<1920, 1080>>
        /\ call[c].out = <<1920, 0, 1080, 0>>
        /\ regs[PCIRC_USECASE_MODE] = <<32736, 0>>

\* C14: get-file-length returns the 64-bit value whose low 32 bits are the
\* word at 0x40 and whose high 32 bits are the word at 0x44.
C14_FileLengthFrom0x40And0x44 ==
    [][\A c \in Callers :
          (/\ IoctlStep(c) /\ call'[c].ret = 0
           /\ call'[c].count = GET_FILE_LENGTH) =>
             call'[c].out =
                <<regs[PCIRC_READ_FILE_LENGTH][1],
                  regs[PCIRC_READ_FILE_LENGTH][2],
                  regs[PCIRC_READ_BUFFER_TRANSFER_DONE][1],
                  regs[PCIRC_READ_BUFFER_TRANSFER_DONE][2]>>]_vars

\* a step in which caller c runs llseek
LseekStep(c) == pc[c] = "idle" /\ pc'[c] # "idle" /\ call'[c].op = "lseek"

\* C15: llseek(offset) leaves the register block in the state
\* set-read-offset with the same value leaves it in, whatever the offset
\* and the registers before: a seek step ends in the state of the control
\* request, and a control request whose argument was copied in full ends in
\* the state of the seek.
C15_SeekIsSetReadOffset ==
    [][\A c \in Callers :
          /\ LseekStep(c) =>
                regs' = ioctl_result(regs, SET_READ_OFFSET,
                                     call'[c].arg, 0).regs
          /\ (/\ IoctlStep(c) /\ call'[c].count = SET_READ_OFFSET
              /\ call'[c].ret = 0) =>
                regs' = lseek_regs(regs, call'[c].arg)]_vars

C15_Witness ==
    \E c \in Callers :
        /\ pc[c] = "ret" /\ call[c].op = "lseek"
        /\ call[c].arg = <<0, 0, 0, 32768>>
        /\ regs[PCIEP_READ_BUFFER_OFFSET] = <<0, 0>>
        /\ regs[PCIEP_READ_BUFFER_READY] = <<65534, 0>>
        /\ regs[PCIEP_WRITE_BUFFER_OFFSET] = <<48879, 57005>>

\* C16: a read or write of count > 0 bytes whose allocation, handshake
\* (the direction's interrupt handled after the announcement, no other call
\* of the direction at the same time) and user copy all succeed returns
\* count.
C16_SuccessReturnsCount ==
    [][\A c \in Callers :
          (/\ Waiting(c) /\ pc'[c] = "ret"
           /\ call[c].irq /\ ~call[c].overlap
           /\ pc[c] = "read_wait" => pciep_driver_file_read_wake(c, 0)) =>
             call'[c].ret = call[c].count]_vars

\* a step in which caller c makes the register access `access` of its
\* announcement
AnnounceStep(c, access) ==
    /\ pc[c] = "announce"
    /\ announce_steps[call[c].step] = access
    /\ call'[c].step = call[c].step + 1

\* C17: the step that writes the ready bit of a transfer finds the address
\* of the transfer's buffer in the direction's address register and its
\* byte count in the size register, on the write path with the caller's
\* data already copied into the buffer; the ready bit of a direction is
\* raised by no other step; and a copy_from_user failure returns before any
\* register access, leaving the registers as they were.
C17_ReadyAfterAddressAndSize ==
    [][\A c \in Callers :
          /\ AnnounceStep(c, "write_ready") =>
                /\ regs[AddrReg(call[c].op)] = Trunc32(FromNat(call[c].buf))
                /\ regs[SizeReg(call[c].op)] = Trunc32(FromNat(call[c].count))
                /\ call[c].op = "write" => call[c].copied
          /\ \A d \in Dirs :
                (ReadyBit(d) = 0 /\ regs'[ReadyReg(d)][1] % 2 = 1) =>
                   \E o \in Callers :
                      AnnounceStep(o, "write_ready") /\ call[o].op = d
          /\ (pc[c] = "copy" /\ pc'[c] = "ret") =>
                (regs' = regs /\ call[c].step = 1)]_vars

C17_Witness ==
    \E c \in Callers :
        /\ pc[c] = "write_wait" /\ call[c].copied /\ call[c].buf = NumBufs
        /\ regs[PCIEP_WRITE_BUFFER_ADDR] = <<NumBufs, 0>>
        /\ regs[PCIEP_WRITE_BUFFER_SIZE] = <<1, 0>>
        /\ ReadyBit("write") = 1
        /\ regs[PCIEP_READ_BUFFER_ADDR] = <<1, 0>>
        /\ ~call[c].irq

\* C18: whenever a transfer call resumes from its wait, bit 0 of its
\* direction's ready register is 0 (the handler clears the bit before it
\* signals the completion).
C18_ReadyClearOnResume ==
    [][\A c \in Callers :
          (Waiting(c) /\ pc'[c] = "ret") => ReadyBit(DirOf(c)) = 0]_vars

\* C19: open leaves both completions unsignalled, and at the moment a
\* transfer sets its direction's ready bit the direction's completion is
\* unsignalled.
C19_CompletionArmedAtAnnounce ==
    [][\A c \in Callers :
          /\ (pc[c] = "closed" /\ pc'[c] = "ret") =>
                (read_complete' = 0 /\ write_complete' = 0)
          /\ (Entered(c) /\ pc'[c] = "read_wait") => read_complete = 0
          /\ (Entered(c) /\ pc'[c] = "write_wait") => write_complete = 0]_vars

\* C20: a completion is single-slot: a signal that finds it signalled
\* already has no effect, so it never holds more than one pending release.
C20_SingleSlot == read_complete <= 1 /\ write_complete <= 1

-----------------------------------------------------------------------------
(* Every register access a step of its own, in three contexts: one caller   *)
(* runs transfers, the other issues set-offset requests and closes, and     *)
(* the interrupt context runs the read and write handlers.                  *)

IrqCtx   == "irq"
Contexts == Callers \cup {IrqCtx}

\* the variables no register access of a control request or handler changes
RmwFrame == <<read_virt_addr, write_virt_addr, live, badfree>>

\* lines 370-371 and 379-380: copy_from_user, then the offset register
set_offset_write_offset(c, cmd, arg) ==
    /\ pc[c] = "idle"
    /\ cmd \in {SET_READ_OFFSET, SET_WRITE_OFFSET}
    /\ regs' = reg_write(regs, OffsetRegOf(cmd),
                         Trunc32(copy_from_user(arg, 0).value))
    /\ pc' = [pc EXCEPT ![c] = "ioctl_read"]
    /\ call' = [call EXCEPT ![c] = [NoCall EXCEPT !.op = "ioctl",
                                                  !.count = cmd, !.arg = arg]]
    /\ UNCHANGED <<read_complete, write_complete, is_open, RmwFrame>>

\* lines 372 and 381: value = reg_read(this, PCIEP_READ_BUFFER_READY)
set_offset_read_ready(c) ==
    /\ pc[c] = "ioctl_read"
    /\ call' = [call EXCEPT
                   ![c].value = reg_read(regs, ReadyRegOf(call[c].count))]
    /\ pc' = [pc EXCEPT ![c] = "ioctl_write"]
    /\ UNCHANGED <<regs, read_complete, write_complete, is_open, RmwFrame>>

\* lines 373-375 and 382-384: the high bits are replaced in value, and
\* value is written back
set_offset_write_ready(c) ==
    /\ pc[c] = "ioctl_write"
    /\ LET v1 == And32(call[c].value, Not32(READ_BUF_HIGH_OFFSET))
           v2 == Or32(v1, Trunc32(And64(Shr16(call[c].arg),
                                        Widen(READ_BUF_HIGH_OFFSET))))
       IN  regs' = reg_write(regs, ReadyRegOf(call[c].count), v2)
    /\ pc' = [pc EXCEPT ![c] = "ret"]
    /\ UNCHANGED <<call, read_complete, write_complete, is_open, RmwFrame>>

\* lines 281-284: is_open = 0 and the read offset register
release_write_offset(c) ==
    /\ pc[c] = "idle"
    /\ is_open' = FALSE
    /\ regs' = reg_write(regs, PCIEP_READ_BUFFER_OFFSET, PCIEP_CLR_REG)
    /\ pc' = [pc EXCEPT ![c] = "release_read"]
    /\ call' = [call EXCEPT ![c] = Returned("release", 0, 0)]
    /\ UNCHANGED <<read_complete, write_complete, RmwFrame>>

\* line 285: value = reg_read(this, PCIEP_READ_BUFFER_READY)
release_read_ready(c) ==
    /\ pc[c] = "release_read"
    /\ call' = [call EXCEPT
                   ![c].value = reg_read(regs, PCIEP_READ_BUFFER_READY)]
    /\ pc' = [pc EXCEPT ![c] = "release_write"]
    /\ UNCHANGED <<regs, read_complete, write_complete, is_open, RmwFrame>>

\* lines 286-287: value &= ~READ_BUF_HIGH_OFFSET, written back
release_write_ready(c) ==
    /\ pc[c] = "release_write"
    /\ regs' = reg_write(regs, PCIEP_READ_BUFFER_READY,
                         And32(call[c].value, Not32(READ_BUF_HIGH_OFFSET)))
    /\ pc' = [pc EXCEPT ![c] = "release_rsize"]
    /\ UNCHANGED <<call, read_complete, write_complete, is_open, RmwFrame>>

\* line 288
release_write_read_size(c) ==
    /\ pc[c] = "release_rsize"
    /\ regs' = reg_write(regs, PCIEP_READ_BUFFER_SIZE, PCIEP_CLR_REG)
    /\ pc' = [pc EXCEPT ![c] = "release_wsize"]
    /\ UNCHANGED <<call, read_complete, write_complete, is_open, RmwFrame>>

\* line 289
release_write_write_size(c) ==
    /\ pc[c] = "release_wsize"
    /\ regs' = reg_write(regs, PCIEP_WRITE_BUFFER_SIZE, PCIEP_CLR_REG)
    /\ pc' = [pc EXCEPT ![c] = "ret"]
    /\ UNCHANGED <<call, read_complete, write_complete, is_open, RmwFrame>>

\* lines 555 and 577: the handler of direction d starts (while the
\* completion counter is below MaxDone) and reads the ready register
irq_read_ready(d) ==
    /\ pc[IrqCtx] = "irq_idle"
    /\ (IF d = "read" THEN read_complete ELSE write_complete) < MaxDone
    /\ call' = [call EXCEPT ![IrqCtx] =
                   [NoCall EXCEPT !.op = d,
                                  !.value = reg_read(regs, ReadyReg(d))]]
    /\ pc' = [pc EXCEPT ![IrqCtx] = "irq_write"]
    /\ UNCHANGED <<regs, read_complete, write_complete, is_open, RmwFrame>>

\* lines 556-557 and 578-579: value &= ~SET_BUFFER_RDY, written back
irq_write_ready ==
    /\ pc[IrqCtx] = "irq_write"
    /\ regs' = reg_write(regs, ReadyReg(call[IrqCtx].op),
                         And32(call[IrqCtx].value, Not32(SET_BUFFER_RDY)))
    /\ pc' = [pc EXCEPT ![IrqCtx] = "irq_complete"]
    /\ UNCHANGED <<call, read_complete, write_complete, is_open, RmwFrame>>

\* lines 558-559 and 580-581: complete(), and the interrupt source is read
irq_complete ==
    /\ pc[IrqCtx] = "irq_complete"
    /\ IF call[IrqCtx].op = "read"
       THEN read_complete' = read_complete + 1 /\ UNCHANGED write_complete
       ELSE write_complete' = write_complete + 1 /\ UNCHANGED read_complete
    /\ pc' = [pc EXCEPT ![IrqCtx] = "irq_idle"]
    /\ call' = [call EXCEPT ![IrqCtx] = NoCall]
    /\ UNCHANGED <<regs, is_open, RmwFrame>>

InitRmw ==
    /\ regs = ZeroRegs
    /\ read_complete = 0
    /\ write_complete = 0
    /\ read_virt_addr = NULL
    /\ write_virt_addr = NULL
    /\ is_open = FALSE
    /\ live = [d \in Dirs |-> {}]
    /\ badfree = FALSE
    /\ pc = [x \in Contexts |-> IF x = IrqCtx THEN "irq_idle" ELSE "closed"]
    /\ call = [x \in Contexts |-> NoCall]

NextRmw ==
    \/ \E c \in Callers : pciep_driver_file_open(c)
    \/ \E c \in Callers : Return(c)
    \/ read_alloc(CtlCaller, 1, 1)
    \/ write_alloc(CtlCaller, 1, 1)
    \/ write_copy(CtlCaller, 0)
    \/ announce_write_addr(CtlCaller)
    \/ announce_write_size(CtlCaller)
    \/ announce_read_ready(CtlCaller)
    \/ announce_write_ready(CtlCaller)
    \/ pciep_driver_file_read_wake(CtlCaller, 0)
    \/ pciep_driver_file_write_wake(CtlCaller)
    \/ \E cmd \in {SET_READ_OFFSET, SET_WRITE_OFFSET}, arg \in OffsetArgs :
          set_offset_write_offset(HoldCaller, cmd, arg)
    \/ set_offset_read_ready(HoldCaller)
    \/ set_offset_write_ready(HoldCaller)
    \/ release_write_offset(HoldCaller)
    \/ release_read_ready(HoldCaller)
    \/ release_write_ready(HoldCaller)
    \/ release_write_read_size(HoldCaller)
    \/ release_write_write_size(HoldCaller)
    \/ \E d \in Dirs : irq_read_ready(d)
    \/ irq_write_ready
    \/ irq_complete

RmwSpec == InitRmw /\ [][NextRmw]_vars

-----------------------------------------------------------------------------
(* C21 .. C25 *)

TransferDoneRegs == {PCIEP_READ_TRANSFER_DONE, PCIEP_WRITE_TRANSFER_DONE}

\* C21: a run of the host-done interrupt handler leaves both transfer-done
\* registers zero and every other register as it was, changes neither
\* buffer descriptor nor either completion, and moves no caller: a transfer
\* that waits still waits, one that could return still can, no other can.
C21_HostDoneClearsOnlyDoneFlags ==
    [][xilinx_pciep_host_done_irq_handler =>
          /\ \A reg \in TransferDoneRegs : regs'[reg] = PCIEP_CLR_REG
          /\ \A reg \in AllRegs \ TransferDoneRegs : regs'[reg] = regs[reg]
          /\ UNCHANGED <<read_complete, write_complete, read_virt_addr,
                         write_virt_addr, live, pc>>]_vars

\* both transfer-done registers were set and are clear, with the read
\* transfer still announced and waiting and nothing opened since (the ready
\* bit and the address register are what they were)
C21_Witness ==
    /\ \A reg \in TransferDoneRegs : regs[reg] = PCIEP_CLR_REG
    /\ regs[PCIEP_READ_BUFFER_ADDR] = <<48879, 57005>>
    /\ regs[PCIEP_READ_BUFFER_READY] = <<32769, 1>>
    /\ regs[PCIEP_WRITE_BUFFER_READY] = <<65534, 43690>>
    /\ pc[CtlCaller] = "read_wait" /\ ~call[CtlCaller].irq
    /\ read_complete = 0 /\ read_virt_addr = 1

\* a step in which caller c runs open(), and with it the full reset
OpenStep(c) == pc[c] = "closed" /\ pc'[c] = "ret" /\ call'[c].op = "open"

\* C22: open, and with it the full reset, runs only while no transfer is
\* blocked between setting its ready bit and its completion, so the reset
\* clears neither the ready bit nor the size register of a transfer in
\* flight.
C22_ResetOnlyBeforeAnnounce ==
    [][\A c \in Callers :
          OpenStep(c) =>
             \A o \in Callers :
                /\ ~Waiting(o)
                /\ Waiting(o) =>
                      /\ regs'[ReadyReg(DirOf(o))] = regs[ReadyReg(DirOf(o))]
                      /\ regs'[SizeReg(DirOf(o))] = regs[SizeReg(DirOf(o))]]_vars

\* a parameter word holds v in field f
Holds(word, f, v) == And32(word, FieldBits(f)) = Shl32(v, f.shift)

\* the fields packed in one word occupy pairwise disjoint bit ranges, each
\* within the 32 bits of the word
EncFieldsDisjoint ==
    \A f \in EncFields :
        /\ Shr32(FieldBits(f), f.shift) = f.mask
        /\ \A g \in EncFields :
              (g.reg = f.reg /\ g # f) =>
                 And32(FieldBits(f), FieldBits(g)) = <<0, 0>>

\* C23: get-encoding-parameters returns, for every field and every value v
\* within the field's mask, exactly v when the register word holds v at
\* the field's shift, whatever the other bits of the word are; and the
\* fields of one word occupy pairwise disjoint bit ranges within 32 bits.
C23_EncParamsRoundTrip ==
    [][\A c \in Callers :
          (/\ IoctlStep(c) /\ call'[c].ret = 0
           /\ call'[c].count = GET_ENC_PARAMS) =>
             /\ EncFieldsDisjoint
             /\ \A f \in EncFields :
                   \A v \in EncValues(f) :
                      Holds(regs[f.reg], f, v) =>
                         call'[c].out[f.idx] = v[1]]_vars

C23_Witness ==
    \E c \in Callers :
        /\ pc[c] = "ret" /\ call[c].op = "ioctl" /\ call[c].ret = 0
        /\ call[c].count = GET_ENC_PARAMS
        /\ regs[PCIRC_ENC_PARAMS_1] =
              Placed(EncField(PCIRC_ENC_PARAMS_1, BITRATE_SHIFT,
                              BITRATE_MASK, 5),
                     <<21845, 0>>, <<65535, 65535>>)
        /\ call[c].out[5] = 21845 /\ call[c].out[6] = 1023
        /\ regs[PCIRC_ENC_PARAMS_2] =
              Placed(EncField(PCIRC_ENC_PARAMS_2, GOP_MODE_SHIFT,
                              GOP_MODE_MASK, 12),
                     <<7, 0>>, <<0, 0>>)
        /\ call[c].out[12] = 7 /\ call[c].out[11] = 0

\* a step in which a control request or close writes the ready register
ControlWriteStep(c) ==
    pc[c] \in {"ioctl_write", "release_write"} /\ pc'[c] # pc[c]

\* C24: with every register access a step of its own no update of a ready
\* register is lost: the write-back of a set-offset request or of close
\* leaves bit 0 as it finds it (it neither sets again the bit the handler
\* cleared nor clears the bit an announcement set), and the write-back of
\* an announcement or of an interrupt handler leaves the offset high bits
\* (bits 16..31) as it finds them.
C24_NoLostUpdate ==
    [][/\ \A c \in Callers :
             ControlWriteStep(c) =>
                \A d \in Dirs : regs'[ReadyReg(d)][1] % 2 = ReadyBit(d)
       /\ \A c \in Callers :
             AnnounceStep(c, "write_ready") =>
                \A d \in Dirs : regs'[ReadyReg(d)][2] = regs[ReadyReg(d)][2]
       /\ (pc[IrqCtx] = "irq_write" /\ pc'[IrqCtx] # "irq_write") =>
             \A d \in Dirs : regs'[ReadyReg(d)][2] = regs[ReadyReg(d)][2]]_vars

\* a step in which caller c runs release()
ReleaseStep(c) ==
    pc[c] = "idle" /\ pc'[c] = "ret" /\ call'[c].op = "release"

ReleaseZeroed == {PCIEP_READ_BUFFER_OFFSET, PCIEP_READ_BUFFER_SIZE,
                  PCIEP_WRITE_BUFFER_SIZE}

=============================================================================
